---- MODULE Spec2Model ----
(***************************************************************************)
(* Spacecraft EPS power budget: the forward-Euler battery integrator      *)
(* (eps/battery_model.py), the rule-based routing controller               *)
(* (eps/eps_controller.py), the static power equations                     *)
(* (eps/power_model.py) and the coupled power-flow loop                    *)
(* (eps_power_flow_simulation.py).                                         *)
(*                                                                         *)
(* Number representation.                                                  *)
(*   - BatteryModel, _route_step and run_simulation compute with Python    *)
(*     floats.  The model computes with the same numbers: a float is a     *)
(*     triple <<sign, mantissa, exponent>> of value                        *)
(*     sign * mantissa * 2^exponent, and +, -, *, / round to the nearest  *)
(*     float of 53 significant bits, ties to even, with gradual underflow *)
(*     below 2^-1022, as IEEE 754 binary64 does.  The mantissa is a       *)
(*     natural number written in base 2^15, least significant digit       *)
(*     first.  Infinities, NaN and the sign of zero are not represented:  *)
(*     no input used here overflows.                                       *)
(*   - EPSController.route and the functions of power_model are modelled  *)
(*     on inputs on which their float arithmetic is exact: powers are     *)
(*     integer watts, a state of charge is socNum / SocDen, an efficiency *)
(*     is etaNum / EtaDen, and a quotient is a reduced fraction            *)
(*     <<num, den>>.                                                       *)
(***************************************************************************)
EXTENDS Integers, Sequences, FiniteSets, TLC

\* ---------------------------------------------------------------- bounds
\* battery capacities are 50 Wh times 1 .. MaxCap
MaxCap == 2
\* route() calls counted on one controller
MaxCalls == 2
\* integer watts offered to route() and to the power_model functions
MaxPower == 2
\* power_model: energies are 2^0 .. 2^MaxCapLog
MaxCapLog == 2
\* power_model: buses in a list
MaxBuses == 3

\* -------------------------------------------------------------- scales
\* a state of charge passed to route() or power_model is a multiple of 1/SocDen
SocDen == 2 ^ 2
\* an efficiency passed to power_model is a multiple of 1/EtaDen
EtaDen == 2 ^ 1
\* round(time_h, 10): decimal places kept in a time label
RoundDigits == 10

\* ------------------------------------------- natural numbers in base 2^15
\* a natural number is the sequence of its digits, least significant first,
\* without leading zero digits; <<>> is 0
LimbBits == 15
Base == 2 ^ LimbBits

Limb(a, i) == IF i <= Len(a) THEN a[i] ELSE 0

RECURSIVE BigNorm(_)
BigNorm(a) ==
    IF a = <<>> THEN a
    ELSE IF a[Len(a)] = 0 THEN BigNorm(SubSeq(a, 1, Len(a) - 1)) ELSE a

RECURSIVE BigFromInt(_)
BigFromInt(n) == IF n = 0 THEN <<>> ELSE <<n % Base>> \o BigFromInt(n \div Base)

RECURSIVE BigToInt(_)
BigToInt(a) == IF a = <<>> THEN 0 ELSE a[1] + Base * BigToInt(Tail(a))

RECURSIVE BigAddFrom(_, _, _, _)
BigAddFrom(a, b, i, carry) ==
    IF i > Len(a) /\ i > Len(b)
    THEN (IF carry = 0 THEN <<>> ELSE <<carry>>)
    ELSE LET s == Limb(a, i) + Limb(b, i) + carry
         IN  <<s % Base>> \o BigAddFrom(a, b, i + 1, s \div Base)

BigAdd(a, b) == BigAddFrom(a, b, 1, 0)

\* a - b for a >= b
RECURSIVE BigSubFrom(_, _, _, _)
BigSubFrom(a, b, i, borrow) ==
    IF i > Len(a) THEN <<>>
    ELSE LET d == a[i] - Limb(b, i) - borrow
         IN  IF d < 0 THEN <<d + Base>> \o BigSubFrom(a, b, i + 1, 1)
                      ELSE <<d>> \o BigSubFrom(a, b, i + 1, 0)

BigSub(a, b) == BigNorm(BigSubFrom(a, b, 1, 0))

RECURSIVE BigCmpAt(_, _, _)
BigCmpAt(a, b, i) ==
    IF i = 0 THEN 0
    ELSE IF a[i] > b[i] THEN 1
    ELSE IF a[i] < b[i] THEN 0 - 1
    ELSE BigCmpAt(a, b, i - 1)

\* 1, 0 or -1 as a > b, a = b or a < b
BigCmp(a, b) ==
    IF Len(a) > Len(b) THEN 1
    ELSE IF Len(a) < Len(b) THEN 0 - 1
    ELSE BigCmpAt(a, b, Len(a))

RECURSIVE BigMulSmallFrom(_, _, _, _)
BigMulSmallFrom(a, m, i, carry) ==
    IF i > Len(a) THEN (IF carry = 0 THEN <<>> ELSE <<carry>>)
    ELSE LET p == a[i] * m + carry
         IN  <<p % Base>> \o BigMulSmallFrom(a, m, i + 1, p \div Base)

\* a * m for one digit m
BigMulSmall(a, m) == IF m = 0 THEN <<>> ELSE BigMulSmallFrom(a, m, 1, 0)

RECURSIVE BigMulFrom(_, _, _)
BigMulFrom(a, b, j) ==
    IF j > Len(b) THEN <<>>
    ELSE LET rest == BigMulFrom(a, b, j + 1)
         IN  BigAdd(BigMulSmall(a, b[j]), IF rest = <<>> THEN rest ELSE <<0>> \o rest)

BigMul(a, b) == IF a = <<>> \/ b = <<>> THEN <<>> ELSE BigMulFrom(a, b, 1)

\* a * 2^k
BigShl(a, k) ==
    IF a = <<>> THEN a
    ELSE [i \in 1 .. (k \div LimbBits) |-> 0] \o BigMulSmall(a, 2 ^ (k % LimbBits))

\* floor(a / 2^k)
BigShr(a, k) ==
    LET w == k \div LimbBits
        b == k % LimbBits
        n == Len(a) - w
    IN  IF n <= 0 THEN <<>>
        ELSE BigNorm([i \in 1 .. n |->
                 (a[w + i] \div (2 ^ b))
                 + (Limb(a, w + i + 1) % (2 ^ b)) * (2 ^ (LimbBits - b))])

\* bit k of a, bit 0 the least significant
BigBit(a, k) == (Limb(a, (k \div LimbBits) + 1) \div (2 ^ (k % LimbBits))) % 2

\* the k low bits of a are all 0
BigLowZero(a, k) ==
    /\ \A i \in 1 .. (k \div LimbBits) : Limb(a, i) = 0
    /\ Limb(a, (k \div LimbBits) + 1) % (2 ^ (k % LimbBits)) = 0

RECURSIVE BitLen(_)
BitLen(n) == IF n = 0 THEN 0 ELSE 1 + BitLen(n \div 2)

\* the number of significant bits of a
BigBitLen(a) == IF a = <<>> THEN 0 ELSE LimbBits * (Len(a) - 1) + BitLen(a[Len(a)])

RECURSIVE TrailingZeros(_)
TrailingZeros(n) == IF n % 2 = 1 THEN 0 ELSE 1 + TrailingZeros(n \div 2)

RECURSIVE BigTrailingZerosFrom(_, _)
BigTrailingZerosFrom(a, i) ==
    IF a[i] = 0 THEN LimbBits + BigTrailingZerosFrom(a, i + 1) ELSE TrailingZeros(a[i])

\* a / 2^k rounded to the nearest natural, ties to the even one
BigRoundShr(a, k) ==
    IF k <= 0 THEN a
    ELSE LET q == BigShr(a, k)
             up == /\ BigBit(a, k - 1) = 1
                   /\ (~BigLowZero(a, k - 1) \/ BigBit(q, 0) = 1)
         IN  IF up THEN BigAdd(q, <<1>>) ELSE q

\* one digit of a long division: floor(cur / b) for cur < b * Base, the top
\* digit of b being at least Base / 2; the estimate qhat taken from the top
\* digits is at most 2 above it
DivDigit(cur, b) ==
    IF BigCmp(cur, b) < 0 THEN 0
    ELSE LET n == Len(b)
             est == (Limb(cur, n + 1) * Base + cur[n]) \div b[n]
             qhat == IF est > Base - 1 THEN Base - 1 ELSE est
         IN  IF BigCmp(BigMulSmall(b, qhat), cur) <= 0 THEN qhat
             ELSE IF BigCmp(BigMulSmall(b, qhat - 1), cur) <= 0 THEN qhat - 1
             ELSE qhat - 2

RECURSIVE BigDivFrom(_, _, _, _)
BigDivFrom(a, b, i, rem) ==
    IF i = 0 THEN <<(<<>>), rem>>
    ELSE LET cur == BigNorm(<<a[i]>> \o rem)
             d == DivDigit(cur, b)
             rest == BigDivFrom(a, b, i - 1, BigSub(cur, BigMulSmall(b, d)))
         IN  <<rest[1] \o <<d>>, rest[2]>>

\* <<floor(a / b), a mod b>> for b > 0
BigDivMod(a, b) ==
    LET s == LimbBits - BitLen(b[Len(b)])
        qr == BigDivFrom(BigShl(a, s), BigShl(b, s), Len(BigShl(a, s)), <<>>)
    IN  <<BigNorm(qr[1]), BigShr(qr[2], s)>>

RECURSIVE BigPow10(_)
BigPow10(n) == IF n = 0 THEN <<1>> ELSE BigMulSmall(BigPow10(n - 1), 10)

\* ------------------------------------------------------- Python floats
\* significant bits of a float, and the exponent of its smallest positive value
MantBits == 53
MinExp == 0 - 1074

\* 0.0
FZero == <<0, <<>>, 0>>

\* the one triple of a value: an odd mantissa
Canon(s, n, e) ==
    IF n = <<>> THEN FZero
    ELSE LET tz == BigTrailingZerosFrom(n, 1) IN <<s, BigShr(n, tz), e + tz>>

\* the float nearest to s * n * 2^e, ties to even
RoundBig(s, n, e) ==
    LET byWidth == BigBitLen(n) - MantBits
        byRange == MinExp - e
        sh == IF byWidth > byRange THEN byWidth ELSE byRange
    IN  IF sh <= 0 THEN Canon(s, n, e) ELSE Canon(s, BigRoundShr(n, sh), e + sh)

\* float(n) for an integer n
F(n) == IF n = 0 THEN FZero
        ELSE IF n > 0 THEN Canon(1, BigFromInt(n), 0)
        ELSE Canon(0 - 1, BigFromInt(0 - n), 0)

\* 2.0 ** k
Pow2(k) == <<1, <<1>>, k>>

FNeg(x) == <<0 - x[1], x[2], x[3]>>

\* x * 2^k, exactly
Scale2(x, k) == IF x[1] = 0 THEN x ELSE <<x[1], x[2], x[3] + k>>

\* 1 + floor(log2 |x|) for x # 0
Top(x) == x[3] + BigBitLen(x[2])

\* x + y as a real number: a triple whose mantissa may exceed 53 bits
ExactAdd(x, y) ==
    IF x[1] = 0 THEN y
    ELSE IF y[1] = 0 THEN x
    ELSE LET e == IF x[3] < y[3] THEN x[3] ELSE y[3]
             a == BigShl(x[2], x[3] - e)
             b == BigShl(y[2], y[3] - e)
             c == BigCmp(a, b)
         IN  IF x[1] = y[1] THEN <<x[1], BigAdd(a, b), e>>
             ELSE IF c = 0 THEN FZero
             ELSE IF c > 0 THEN <<x[1], BigSub(a, b), e>>
             ELSE <<y[1], BigSub(b, a), e>>

\* x * y as a real number
ExactMul(x, y) ==
    IF x[1] = 0 \/ y[1] = 0 THEN FZero
    ELSE <<x[1] * y[1], BigMul(x[2], y[2]), x[3] + y[3]>>

\* 1, 0 or -1 as x > y, x = y or x < y
FCmp(x, y) ==
    IF x[1] # y[1] THEN (IF x[1] > y[1] THEN 1 ELSE 0 - 1)
    ELSE IF x[1] = 0 THEN 0
    ELSE IF Top(x) # Top(y) THEN (IF Top(x) > Top(y) THEN x[1] ELSE 0 - x[1])
    ELSE ExactAdd(x, FNeg(y))[1]

FLt(x, y) == FCmp(x, y) < 0
FLeq(x, y) == FCmp(x, y) <= 0

\* x + y; an addend more than 60 bits below the other one rounds as any
\* nonzero value of its sign that far below does
FAdd(x, y) ==
    LET yy == IF x[1] # 0 /\ y[1] # 0 /\ Top(y) < Top(x) - 60
              THEN <<y[1], <<1>>, Top(x) - 60>> ELSE y
        xx == IF x[1] # 0 /\ y[1] # 0 /\ Top(x) < Top(y) - 60
              THEN <<x[1], <<1>>, Top(y) - 60>> ELSE x
        r == ExactAdd(xx, yy)
    IN  RoundBig(r[1], r[2], r[3])

\* x - y
FSub(x, y) == FAdd(x, FNeg(y))

\* x * y
FMul(x, y) ==
    LET r == ExactMul(x, y) IN RoundBig(r[1], r[2], r[3])

\* the float nearest to s * (a / b) * 2^e, for naturals a > 0 and b > 0
DivRound(s, a, b, e) ==
    LET want == MantBits + 4 + BigBitLen(b) - BigBitLen(a)
        k == IF want > 0 THEN want ELSE 0
        qr == BigDivMod(BigShl(a, k), b)
        n == BigAddFrom(qr[1], qr[1], 1, IF qr[2] = <<>> THEN 0 ELSE 1)
    IN  RoundBig(s, n, e - k - 1)

\* x / y for y # 0
FDiv(x, y) ==
    IF x[1] = 0 THEN FZero
    ELSE DivRound(x[1] * y[1], x[2], y[2], x[3] - y[3])

\* the float a decimal literal n * 10^-p denotes, e.g. Decimal(9, 1) for 0.9
Decimal(n, p) ==
    IF n = 0 THEN FZero
    ELSE IF n > 0 THEN DivRound(1, BigFromInt(n), BigPow10(p), 0)
    ELSE DivRound(0 - 1, BigFromInt(0 - n), BigPow10(p), 0)

\* int(x): the integer part, toward zero
FloorInt(x) ==
    IF x[1] = 0 THEN 0
    ELSE x[1] * BigToInt(IF x[3] >= 0 THEN BigShl(x[2], x[3]) ELSE BigShr(x[2], 0 - x[3]))

\* max(a, b) and min(a, b) of Python: the first argument unless the second
\* is greater, respectively smaller
FMax(a, b) == IF FLt(a, b) THEN b ELSE a
FMin(a, b) == IF FLt(b, a) THEN b ELSE a

\* ------------------------------------------------------------ input sets
\* BatteryModel(capacity_wh, initial_soc, eta)
BatteryCapacityInputs == {F(0 - 1), F(0)} \cup {F(50 * k) : k \in 1 .. MaxCap}
BatterySocInputs == {Decimal(0 - 1, 1), F(0), Decimal(3, 1), Decimal(7, 1), F(1), Decimal(15, 1)}
BatteryEtaInputs == {F(0), Decimal(9, 1), F(1), Decimal(11, 1)}
\* simulate(p_excess_w, ...): the 104.19 W of the power budget, 1e-18 W, the
\* smallest positive float, and 0
DrivePowerInputs ==
    {Decimal(0 - 10419, 2), Decimal(0 - 1, 18), F(0), Pow2(MinExp), Decimal(1, 18),
     Decimal(10419, 2)}
\* simulate(..., dt_h, duration_h): rejected windows, windows of two steps,
\* one with a timestep below 1e-10 h, and the 30 steps of 1/60 h of the
\* power-flow simulation
WindowInputs ==
    {<<F(0), Decimal(5, 1)>>, <<Decimal(0 - 2, 1), Decimal(5, 1)>>,
     <<Decimal(2, 1), F(0)>>, <<Decimal(5, 1), Decimal(2, 1)>>,
     <<Decimal(2, 1), Decimal(5, 1)>>, <<Decimal(5, 1), F(1)>>,
     <<Pow2(0 - 35), Pow2(0 - 34)>>, <<FDiv(F(1), F(60)), Decimal(5, 1)>>}
\* simulate() calls that share an instance
SharedPowerInputs == {Decimal(0 - 10419, 2), Decimal(10419, 2)}
SharedWindowInputs ==
    {<<F(0), Decimal(5, 1)>>, <<Decimal(2, 1), Decimal(5, 1)>>, <<Decimal(5, 1), F(1)>>}

\* _route_step: the powers of the solar array and of the avionics load
SolarInputs == {F(0), FSub(F(1), Pow2(0 - 53)), Decimal(434, 1), F(180)}
AvionicsInputs == {F(0), F(1)}
\* _route_step: timesteps, 0 included
StepDtInputs == {F(0), FDiv(F(1), F(60)), Decimal(3, 1), Decimal(6, 1), F(1), F(3)}
\* _route_step: the capacities and efficiencies of a constructed battery
StepCapacityInputs == {F(50 * k) : k \in 1 .. MaxCap}
StepEtaInputs == {Decimal(9, 1), F(1)}
\* _route_step: the stored energies run_simulation passes, from 0 to capacity
StepSocInputs == {F(0), Decimal(3, 1), Decimal(7, 1), Decimal(9, 1), F(1)}
StepEnergyInputs(cap) == {FMul(soc, cap) : soc \in StepSocInputs}

\* run_simulation: the configured bus lists, degradation factors and windows
FlowBusInputs == {<<>>, <<<<1, 1>>>>}
FlowAlphaInputs == {0, 1}
FlowSocInputs == {F(0), Decimal(3, 1), Decimal(7, 1), F(1)}
\* run_simulation: <<DT_H, DURATION_H>>, the 30 steps of 1/60 h first
FlowWindowInputs ==
    {<<FDiv(F(1), F(60)), Decimal(5, 1)>>, <<Decimal(6, 1), Decimal(18, 1)>>,
     <<Decimal(3, 1), F(1)>>, <<F(1), Decimal(5, 1)>>}

\* route() and power_model: integer watts, numerators of SoC and efficiency
SocInputs == (0 - 1) .. (SocDen + 1)
EtaInputs == 0 .. (EtaDen + 1)
PowerInputs == (0 - MaxPower) .. MaxPower
\* power_model: bus voltages and load currents
BusVoltageInputs == {1, 2}
BusCurrentInputs == (0 - 1) .. MaxPower
\* power_model: lists of (voltage, current) pairs
BusInputs ==
    UNION {[1 .. n -> BusVoltageInputs \X BusCurrentInputs] : n \in 0 .. MaxBuses}
\* power_model: energies and powers, negative, zero or a power of two
StaticEnergyInputs == {0 - 1, 0} \cup {2 ^ k : k \in 0 .. MaxCapLog}
StaticPowerInputs == {0 - 1, 0} \cup {2 ^ k : k \in 0 .. MaxCapLog}

VARIABLES
    ctor,        \* the arguments of the last BatteryModel(...) call: [capacity_wh, initial_soc, eta]
    bm,          \* the BatteryModel instance: [status, capacity_wh, eta, initial_energy_wh]
    sim,         \* the simulate() call: [pc, p_excess_w, dt_h, duration_h, energy_wh, time_h, n_steps, i]
    steps,       \* result.steps of the simulate() call
    err,         \* the exception raised by the last operation, or NoError
    cctor,       \* the last EPSController(...) call: [called, given, soc_upper_limit]
    ctrl,        \* the EPSController instance: [status, soc_upper_limit]
    routeLog,    \* route() calls made on the instance: [calls (counted up to MaxCalls), failed]
    req,         \* the arguments of the last route() call: [called, p_excess_w, current_soc]
    alloc,       \* the RoutingAllocation returned by the last route() call, or NoAlloc
    rsArgs,      \* the arguments of the last _route_step() call
    rsOut,       \* the tuple returned by the last _route_step() call
    pmArgs,      \* the call of a power_model function: [op, called, buses, e_battery_wh, soc,
                 \*                                      e_remaining_wh, p_excess_w, eta]
    pmOut,       \* what that call returned: [returned, value]
    cfg,         \* the constants of eps/config.py and the execution parameters DT_H, DURATION_H
    flow,        \* the run_simulation() call: [pc, p_eol, p_solar, battery_energy, time_h, n_steps, i]
    ts,          \* the EPSTimeSeries of the run_simulation() call, one record per entry
    frames       \* simulate() calls in progress on one instance: caller -> [pc, ..., steps, err]

vars == <<ctor, bm, sim, steps, err, cctor, ctrl, routeLog, req, alloc, rsArgs, rsOut,
          pmArgs, pmOut, cfg, flow, ts, frames>>
batteryVars == <<ctor, bm, sim, steps>>
routerVars == <<cctor, ctrl, routeLog, req, alloc>>
stepVars == <<rsArgs, rsOut>>
staticVars == <<pmArgs, pmOut>>
flowVars == <<cfg, flow, ts>>
sharedVars == <<frames>>

\* the callers that share one BatteryModel instance
Callers == {1, 2}

NoError == [kind |-> "none", msg |-> "none"]

\* raise ValueError(message)
ValueError(m) == [kind |-> "ValueError", msg |-> m]
NoAlloc == [returned |-> FALSE]
\* no _route_step() call made yet
NoStepArgs == [called |-> FALSE, p_solar_w |-> FZero, p_avionics_w |-> FZero,
               battery_energy_wh |-> FZero, eta |-> FZero, capacity_wh |-> FZero,
               dt_h |-> FZero]
NoStepOut == [battery_charging_w |-> FZero, shunt_w |-> FZero,
              new_energy_wh |-> FZero, p_excess_w |-> FZero]
\* no power_model function called yet
NoStaticArgs == [op |-> "none", called |-> FALSE, buses |-> <<>>, e_battery_wh |-> 0,
                 soc |-> 0, e_remaining_wh |-> 0, p_excess_w |-> 0, eta |-> 0]
NoStaticOut == [returned |-> FALSE, value |-> <<0, 1>>]
\* no configuration loaded, run_simulation() not called
NoConfig == [POWER_BUSES |-> <<>>, EOL_DEGRADATION_FACTOR |-> 0, SOLAR_ARRAY_POWER |-> FZero,
             BATTERY_CAPACITY_WH |-> FZero, BATTERY_INITIAL_SOC |-> FZero,
             BATTERY_CHARGING_EFFICIENCY |-> FZero, DT_H |-> FZero, DURATION_H |-> FZero]
IdleFlow == [pc |-> "idle", p_eol |-> FZero, p_solar |-> FZero, battery_energy |-> FZero,
             time_h |-> FZero, n_steps |-> 0, i |-> 0]
\* a caller that has not called simulate() yet
IdleFrame == [pc |-> "idle", p_excess_w |-> FZero, dt_h |-> FZero, duration_h |-> FZero,
              energy_wh |-> FZero, time_h |-> FZero, n_steps |-> 0, i |-> 0,
              steps |-> <<>>, err |-> NoError, interleaved |-> FALSE]
NoFrames == [c \in Callers |-> IdleFrame]

\* ------------------------------------------------------- pure helpers
Max(a, b) == IF a >= b THEN a ELSE b
Min(a, b) == IF a <= b THEN a ELSE b

RECURSIVE Gcd(_, _)
Gcd(a, b) == IF b = 0 THEN a ELSE Gcd(b, a % b)

\* a / b as a reduced fraction <<num, den>>, for a >= 0 and b > 0
Fraction(a, b) == LET g == Gcd(a, b) IN <<a \div g, b \div g>>

\* variant of ToSoc: the charge returned as a percentage
ToSocPercent(capacity_wh, energy_wh) == FDiv(FMul(energy_wh, F(100)), capacity_wh)

\* BatteryModel._to_soc: energy_wh / self._capacity_wh
ToSoc(capacity_wh, energy_wh) == FDiv(energy_wh, capacity_wh)

\* variant of Clamp: the upper bound is not enforced
ClampLowerOnly(capacity_wh, energy_wh) == FMax(FZero, energy_wh)

\* BatteryModel._clamp: max(0.0, min(self._capacity_wh, energy_wh))
Clamp(capacity_wh, energy_wh) == FMax(FZero, FMin(capacity_wh, energy_wh))

\* 10 ** 10, a natural number
Ten10 == BigPow10(RoundDigits)

\* variant of Round10: the label is truncated instead of rounded to nearest
Round10Truncate(t) ==
    IF t[1] = 0 \/ t[3] >= 0 THEN t
    ELSE LET m == BigShr(BigMul(t[2], Ten10), 0 - t[3])
         IN  IF m = <<>> THEN FZero ELSE DivRound(t[1], m, Ten10, 0)

\* round(time_h, 10): the decimal of 10 places nearest to time_h, ties to
\* even, and then the float nearest to that decimal
Round10(t) ==
    IF t[1] = 0 \/ t[3] >= 0 THEN t
    ELSE LET m == BigRoundShr(BigMul(t[2], Ten10), 0 - t[3])
         IN  IF m = <<>> THEN FZero ELSE DivRound(t[1], m, Ten10, 0)

\* variant of DeltaE: a negative drive power is ignored
DeltaEChargeOnly(eta, p_excess_w, dt_h) == FMax(FZero, FMul(FMul(eta, p_excess_w), dt_h))

\* variant of DeltaE: the efficiency is left out of the increment
DeltaENoEta(eta, p_excess_w, dt_h) == FMul(p_excess_w, dt_h)

\* delta_e = self._eta * p_excess_w * dt_h, multiplied from left to right
DeltaE(eta, p_excess_w, dt_h) == FMul(FMul(eta, p_excess_w), dt_h)

\* BatteryState(time_h, energy_wh, soc, delta_e_wh)
BatteryState(t, e, s, d) == [time_h |-> t, energy_wh |-> e, soc |-> s, delta_e_wh |-> d]

\* --------------------------------------------------------- BatteryModel
NoArgs == [capacity_wh |-> FZero, initial_soc |-> FZero, eta |-> FZero]
NoModel == [status |-> "none", capacity_wh |-> FZero, eta |-> FZero,
            initial_energy_wh |-> FZero]
IdleSim == [pc |-> "idle", p_excess_w |-> FZero, dt_h |-> FZero, duration_h |-> FZero,
            energy_wh |-> FZero, time_h |-> FZero, n_steps |-> 0, i |-> 0]

\* self._initial_energy_wh = initial_soc * capacity_wh
InitialEnergy(capacity_wh, initial_soc) == FMul(initial_soc, capacity_wh)

\* variant of BatteryModelArgError: an efficiency of 0 is let through
BatteryModelArgErrorEtaZero(capacity_wh, initial_soc, eta) ==
    IF FLeq(capacity_wh, FZero)
    THEN ValueError("Battery capacity must be positive")
    ELSE IF ~(FLeq(FZero, initial_soc) /\ FLeq(initial_soc, F(1)))
    THEN ValueError("Initial SoC must be in [0.0, 1.0]")
    ELSE IF ~(FLeq(FZero, eta) /\ FLeq(eta, F(1)))
    THEN ValueError("Charging efficiency must be in (0.0, 1.0]")
    ELSE NoError

\* BatteryModel.__init__: the three range checks, in the order of the code
BatteryModelArgError(capacity_wh, initial_soc, eta) ==
    IF FLeq(capacity_wh, FZero)
    THEN ValueError("Battery capacity must be positive")
    ELSE IF ~(FLeq(FZero, initial_soc) /\ FLeq(initial_soc, F(1)))
    THEN ValueError("Initial SoC must be in [0.0, 1.0]")
    ELSE IF ~(FLt(FZero, eta) /\ FLeq(eta, F(1)))
    THEN ValueError("Charging efficiency must be in (0.0, 1.0]")
    ELSE NoError

\* BatteryModel.__init__(capacity_wh, initial_soc, eta)
BatteryModelInit(capacity_wh, initial_soc, eta) ==
    /\ sim.pc \in {"idle", "done", "error"}
    /\ ctor' = [capacity_wh |-> capacity_wh, initial_soc |-> initial_soc, eta |-> eta]
    /\ err' = BatteryModelArgError(capacity_wh, initial_soc, eta)
    /\ IF BatteryModelArgError(capacity_wh, initial_soc, eta) # NoError
       THEN bm' = NoModel
       ELSE bm' = [status |-> "ok",
                   capacity_wh |-> capacity_wh,
                   eta |-> eta,
                   initial_energy_wh |-> InitialEnergy(capacity_wh, initial_soc)]
    /\ sim' = IdleSim
    /\ steps' = <<>>
    /\ UNCHANGED <<routerVars, stepVars, staticVars, flowVars, sharedVars>>

\* variant of NSteps: the end point of the window is counted as a step
NStepsInclusive(duration_h, dt_h) == FloorInt(FDiv(duration_h, dt_h)) + 1

\* n_steps = int(duration_h / dt_h), for dt_h > 0 and duration_h > 0
NSteps(duration_h, dt_h) == FloorInt(FDiv(duration_h, dt_h))

\* variant of SimulateArgError: the timestep is not compared with the duration
SimulateArgErrorNoOrder(dt_h, duration_h) ==
    IF FLeq(dt_h, FZero)
    THEN ValueError("Timestep must be positive")
    ELSE IF FLeq(duration_h, FZero)
    THEN ValueError("Duration must be positive")
    ELSE NoError

\* BatteryModel.simulate: the three argument checks, in the order of the code
SimulateArgError(dt_h, duration_h) ==
    IF FLeq(dt_h, FZero)
    THEN ValueError("Timestep must be positive")
    ELSE IF FLeq(duration_h, FZero)
    THEN ValueError("Duration must be positive")
    ELSE IF FLt(duration_h, dt_h)
    THEN ValueError("Timestep exceeds duration")
    ELSE NoError

\* BatteryModel.simulate: argument checks, result construction, step 0
SimulateCall(p, dt, dur) ==
    /\ bm.status = "ok"
    /\ sim.pc \in {"idle", "done", "error"}
    /\ err' = SimulateArgError(dt, dur)
    /\ IF SimulateArgError(dt, dur) # NoError
       THEN /\ sim' = [IdleSim EXCEPT !.pc = "error", !.p_excess_w = p,
                                      !.dt_h = dt, !.duration_h = dur]
            /\ steps' = <<>>
       ELSE /\ sim' = [pc |-> "loop", p_excess_w |-> p, dt_h |-> dt, duration_h |-> dur,
                       energy_wh |-> bm.initial_energy_wh, time_h |-> FZero,
                       n_steps |-> NSteps(dur, dt), i |-> 0]
            /\ steps' = <<BatteryState(FZero, bm.initial_energy_wh,
                                       ToSoc(bm.capacity_wh, bm.initial_energy_wh), FZero)>>
    /\ UNCHANGED <<ctor, bm, routerVars, stepVars, staticVars, flowVars, sharedVars>>

\* new time_h of one loop iteration: time_h += dt_h
AdvanceTime(time_h, dt_h) == FAdd(time_h, dt_h)

\* variant of RecordedDelta: the change actually applied after the clamp
AppliedDelta(delta_e, old_energy, new_energy) == FSub(new_energy, old_energy)

\* delta_e_wh recorded by one loop iteration: the unclamped increment
RecordedDelta(delta_e, old_energy, new_energy) == delta_e

\* new_energy = self._clamp(energy_wh + delta_e)
NewEnergy(capacity_wh, energy_wh, delta_e) == Clamp(capacity_wh, FAdd(energy_wh, delta_e))

\* BatteryModel.simulate: one iteration of the forward Euler loop
SimulateStep ==
    /\ sim.pc = "loop"
    /\ sim.i < sim.n_steps
    /\ LET delta_e == DeltaE(bm.eta, sim.p_excess_w, sim.dt_h)
           new_energy == NewEnergy(bm.capacity_wh, sim.energy_wh, delta_e)
           new_time == AdvanceTime(sim.time_h, sim.dt_h)
       IN /\ sim' = [sim EXCEPT !.energy_wh = new_energy,
                                !.time_h = new_time,
                                !.i = sim.i + 1]
          /\ steps' = Append(steps,
                             BatteryState(Round10(new_time), new_energy,
                                          ToSoc(bm.capacity_wh, new_energy),
                                          RecordedDelta(delta_e, sim.energy_wh, new_energy)))
    /\ UNCHANGED <<ctor, bm, err, routerVars, stepVars, staticVars, flowVars, sharedVars>>

\* BatteryModel.simulate: loop exhausted, return result
SimulateReturn ==
    /\ sim.pc = "loop"
    /\ sim.i = sim.n_steps
    /\ sim' = [sim EXCEPT !.pc = "done"]
    /\ UNCHANGED <<ctor, bm, steps, err, routerVars, stepVars, staticVars, flowVars, sharedVars>>

\* time_h after k loop iterations: dt_h added k times to 0.0
RECURSIVE SimulateTimeAt(_, _)
SimulateTimeAt(dt_h, k) ==
    IF k = 0 THEN FZero ELSE AdvanceTime(SimulateTimeAt(dt_h, k - 1), dt_h)

\* the stored energy of snapshot k of simulate(p, dt_h, ...) on an instance
\* with the given capacity, efficiency and initial energy
RECURSIVE SimulateEnergyAt(_, _, _, _, _, _)
SimulateEnergyAt(capacity_wh, initial_energy_wh, eta, p_excess_w, dt_h, k) ==
    IF k = 0
    THEN initial_energy_wh
    ELSE NewEnergy(capacity_wh,
                   SimulateEnergyAt(capacity_wh, initial_energy_wh, eta, p_excess_w, dt_h,
                                    k - 1),
                   DeltaE(eta, p_excess_w, dt_h))

\* snapshot k of the series simulate(p_excess_w, dt_h, ...) returns on an
\* instance with the given capacity, efficiency and initial energy
SimulateStateAt(capacity_wh, initial_energy_wh, eta, p_excess_w, dt_h, k) ==
    LET e == SimulateEnergyAt(capacity_wh, initial_energy_wh, eta, p_excess_w, dt_h, k)
    IN  IF k = 0
        THEN BatteryState(FZero, e, ToSoc(capacity_wh, e), FZero)
        ELSE BatteryState(Round10(SimulateTimeAt(dt_h, k)), e, ToSoc(capacity_wh, e),
                          RecordedDelta(DeltaE(eta, p_excess_w, dt_h),
                                        SimulateEnergyAt(capacity_wh, initial_energy_wh, eta,
                                                         p_excess_w, dt_h, k - 1),
                                        e))

\* the series simulate(p_excess_w, dt_h, ...) returns after n loop iterations
SimulateSeries(capacity_wh, initial_energy_wh, eta, p_excess_w, dt_h, n) ==
    [k \in 1 .. (n + 1) |->
        SimulateStateAt(capacity_wh, initial_energy_wh, eta, p_excess_w, dt_h, k - 1)]

\* ------------------------------- simulate() calls sharing one instance

\* BatteryModel(...) called once, before any simulate() call
ConstructShared ==
    /\ bm.status = "none"
    /\ \E capacity_wh \in BatteryCapacityInputs, initial_soc \in BatterySocInputs,
          eta \in BatteryEtaInputs : BatteryModelInit(capacity_wh, initial_soc, eta)

\* BatteryModel.simulate called by caller c: argument checks, result
\* construction and step 0, all in the caller's own frame
CallerSimulateCall(c, p, dt, dur) ==
    /\ bm.status = "ok"
    /\ frames[c].pc = "idle"
    /\ frames' = [frames EXCEPT ![c] =
           IF SimulateArgError(dt, dur) # NoError
           THEN [IdleFrame EXCEPT !.pc = "error", !.p_excess_w = p, !.dt_h = dt,
                                  !.duration_h = dur, !.err = SimulateArgError(dt, dur)]
           ELSE [pc |-> "loop", p_excess_w |-> p, dt_h |-> dt, duration_h |-> dur,
                 energy_wh |-> bm.initial_energy_wh, time_h |-> FZero,
                 n_steps |-> NSteps(dur, dt), i |-> 0,
                 steps |-> <<BatteryState(FZero, bm.initial_energy_wh,
                                          ToSoc(bm.capacity_wh, bm.initial_energy_wh),
                                          FZero)>>,
                 err |-> NoError, interleaved |-> FALSE]]
    /\ UNCHANGED <<batteryVars, err, routerVars, stepVars, staticVars, flowVars>>

\* some other caller is between two iterations of its loop
OtherCallerMidRun(c) ==
    \E d \in Callers \ {c} :
        /\ frames[d].pc = "loop"
        /\ 0 < frames[d].i
        /\ frames[d].i < frames[d].n_steps

\* variant of CallerSimulateStep: the running energy is kept on the instance
CallerSimulateStepOnInstance(c) ==
    /\ frames[c].pc = "loop"
    /\ frames[c].i < frames[c].n_steps
    /\ LET f == frames[c]
           delta_e == DeltaE(bm.eta, f.p_excess_w, f.dt_h)
           new_energy == NewEnergy(bm.capacity_wh, bm.initial_energy_wh, delta_e)
           new_time == AdvanceTime(f.time_h, f.dt_h)
       IN /\ frames' = [frames EXCEPT ![c] =
                 [f EXCEPT !.energy_wh = new_energy,
                           !.time_h = new_time,
                           !.i = f.i + 1,
                           !.steps = Append(f.steps,
                               BatteryState(Round10(new_time), new_energy,
                                            ToSoc(bm.capacity_wh, new_energy),
                                            RecordedDelta(delta_e, bm.initial_energy_wh,
                                                          new_energy))),
                           !.interleaved = f.interleaved \/ OtherCallerMidRun(c)]]
          /\ bm' = [bm EXCEPT !.initial_energy_wh = new_energy]
    /\ UNCHANGED <<ctor, sim, steps, err, routerVars, stepVars, staticVars, flowVars>>

\* BatteryModel.simulate, caller c: one iteration of the forward Euler loop,
\* reading the instance and writing the caller's local variables only
CallerSimulateStep(c) ==
    /\ frames[c].pc = "loop"
    /\ frames[c].i < frames[c].n_steps
    /\ LET f == frames[c]
           delta_e == DeltaE(bm.eta, f.p_excess_w, f.dt_h)
           new_energy == NewEnergy(bm.capacity_wh, f.energy_wh, delta_e)
           new_time == AdvanceTime(f.time_h, f.dt_h)
       IN frames' = [frames EXCEPT ![c] =
              [f EXCEPT !.energy_wh = new_energy,
                        !.time_h = new_time,
                        !.i = f.i + 1,
                        !.steps = Append(f.steps,
                            BatteryState(Round10(new_time), new_energy,
                                         ToSoc(bm.capacity_wh, new_energy),
                                         RecordedDelta(delta_e, f.energy_wh, new_energy))),
                        !.interleaved = f.interleaved \/ OtherCallerMidRun(c)]]
    /\ UNCHANGED <<batteryVars, err, routerVars, stepVars, staticVars, flowVars>>

\* BatteryModel.simulate, caller c: loop exhausted, return result
CallerSimulateReturn(c) ==
    /\ frames[c].pc = "loop"
    /\ frames[c].i = frames[c].n_steps
    /\ frames' = [frames EXCEPT ![c].pc = "done"]
    /\ UNCHANGED <<batteryVars, err, routerVars, stepVars, staticVars, flowVars>>

CallerCall ==
    \E c \in Callers, p \in SharedPowerInputs, w \in SharedWindowInputs :
        CallerSimulateCall(c, p, w[1], w[2])

CallerStep == \E c \in Callers : CallerSimulateStep(c)

CallerReturn == \E c \in Callers : CallerSimulateReturn(c)

\* -------------------------------------------------------- EPSController
NoController == [status |-> "none", soc_upper_limit |-> 0]
NoControllerCall == [called |-> FALSE, given |-> FALSE, soc_upper_limit |-> 0]
NoRouteLog == [calls |-> 0, failed |-> FALSE]
NoRequest == [called |-> FALSE, p_excess_w |-> 0, current_soc |-> 0]

\* default of the soc_upper_limit parameter: 1.0, as a numerator over SocDen
DefaultSocUpperLimit == SocDen

\* variant of RoutingAllocation: the remainder is booked on the payload sink
RoutingAllocationToPayload(p, b, pl, sc, sh, full) ==
    [returned |-> TRUE, p_excess_w |-> p, battery_charge_w |-> b, payload_w |-> sh,
     supercap_w |-> sc, shunt_w |-> pl, battery_full |-> full]

\* RoutingAllocation(p_excess_w, battery_charge_w, payload_w, supercap_w, shunt_w, battery_full)
RoutingAllocation(p, b, pl, sc, sh, full) ==
    [returned |-> TRUE, p_excess_w |-> p, battery_charge_w |-> b, payload_w |-> pl,
     supercap_w |-> sc, shunt_w |-> sh, battery_full |-> full]

\* variant of EPSControllerArgError: a limit of 0 is let through
EPSControllerArgErrorZero(limitNum) ==
    IF ~(0 <= limitNum /\ limitNum <= SocDen)
    THEN ValueError("soc_upper_limit must be in (0.0, 1.0]")
    ELSE NoError

\* EPSController.__init__: the range check of soc_upper_limit
EPSControllerArgError(limitNum) ==
    IF ~(0 < limitNum /\ limitNum <= SocDen)
    THEN ValueError("soc_upper_limit must be in (0.0, 1.0]")
    ELSE NoError

\* EPSController.__init__(soc_upper_limit)
EPSControllerInit(limitNum) ==
    /\ err' = EPSControllerArgError(limitNum)
    /\ IF EPSControllerArgError(limitNum) # NoError
       THEN ctrl' = NoController
       ELSE ctrl' = [status |-> "ok", soc_upper_limit |-> limitNum]
    /\ routeLog' = NoRouteLog
    /\ req' = NoRequest
    /\ alloc' = NoAlloc
    /\ UNCHANGED <<batteryVars, stepVars, staticVars, flowVars, sharedVars>>

\* variant of IsBatteryFull: strict comparison
IsBatteryFullStrict(current_soc, soc_upper_limit) == current_soc > soc_upper_limit

\* route: battery_full = current_soc >= self._soc_upper_limit
IsBatteryFull(current_soc, soc_upper_limit) == current_soc >= soc_upper_limit

\* variant of DeficitAllocation: a deficit never reports a full battery
DeficitNeverFull(p_excess_w, battery_full) ==
    RoutingAllocation(p_excess_w, 0, 0, 0, 0, FALSE)

\* variant of DeficitAllocation: the deficit is handed to the shunt
DeficitToShunt(p_excess_w, battery_full) ==
    RoutingAllocation(p_excess_w, 0, 0, 0, p_excess_w, battery_full)

\* route, early return for p_excess_w <= 0: every sink at 0
DeficitAllocation(p_excess_w, battery_full) ==
    RoutingAllocation(p_excess_w, 0, 0, 0, 0, battery_full)

\* variant of BatteryChargeW: the battery share is capped below the remainder
BatteryChargeWCapped(remaining_w, battery_full) ==
    IF battery_full THEN 0 ELSE Min(remaining_w, 1)

\* route, priority 1: nothing when full, else all of the remainder
BatteryChargeW(remaining_w, battery_full) == IF battery_full THEN 0 ELSE remaining_w

\* route, priority 2: payload_w = 0.0
PayloadW == 0

\* route, priority 3: supercap_w = 0.0
SupercapW == 0

\* variant of ShuntW: the battery share is not deducted from the remainder
ShuntWWhole(p_excess_w, battery_charge_w, payload_w, supercap_w) ==
    (p_excess_w - payload_w) - supercap_w

\* route, priority 4: the shunt takes what remains after priorities 1-3
ShuntW(p_excess_w, battery_charge_w, payload_w, supercap_w) ==
    ((p_excess_w - battery_charge_w) - payload_w) - supercap_w

\* the allocation route() returns for an in-range current_soc
RouteAllocation(p_excess_w, current_soc, soc_upper_limit) ==
    IF p_excess_w <= 0
    THEN DeficitAllocation(p_excess_w, IsBatteryFull(current_soc, soc_upper_limit))
    ELSE LET battery_full == IsBatteryFull(current_soc, soc_upper_limit)
             battery_charge_w == BatteryChargeW(p_excess_w, battery_full)
             payload_w == PayloadW
             supercap_w == SupercapW
             shunt_w == ShuntW(p_excess_w, battery_charge_w, payload_w, supercap_w)
         IN RoutingAllocation(p_excess_w, battery_charge_w, payload_w, supercap_w,
                              shunt_w, battery_full)

\* variant of RouteArgError: only the lower bound of current_soc is checked
RouteArgErrorLowerOnly(current_soc) ==
    IF ~(0 <= current_soc)
    THEN ValueError("current_soc must be in [0.0, 1.0]")
    ELSE NoError

\* EPSController.route: the range check of current_soc, made first
RouteArgError(current_soc) ==
    IF ~(0 <= current_soc /\ current_soc <= SocDen)
    THEN ValueError("current_soc must be in [0.0, 1.0]")
    ELSE NoError

\* variant of Route: a full battery latches the limit down to the SoC seen
RouteLatching(p, socNum) ==
    /\ ctrl.status = "ok"
    /\ req' = [called |-> TRUE, p_excess_w |-> p, current_soc |-> socNum]
    /\ routeLog' = [calls |-> Min(routeLog.calls + 1, MaxCalls),
                    failed |-> routeLog.failed \/ RouteArgError(socNum) # NoError]
    /\ err' = RouteArgError(socNum)
    /\ IF RouteArgError(socNum) # NoError
       THEN /\ alloc' = NoAlloc
            /\ ctrl' = ctrl
       ELSE /\ alloc' = RouteAllocation(p, socNum, ctrl.soc_upper_limit)
            /\ ctrl' = IF socNum >= ctrl.soc_upper_limit /\ socNum > 0
                       THEN [ctrl EXCEPT !.soc_upper_limit = Max(1, socNum - 1)]
                       ELSE ctrl
    /\ UNCHANGED <<cctor, batteryVars, stepVars, staticVars, flowVars, sharedVars>>

\* EPSController.route(p_excess_w, current_soc)
Route(p, socNum) ==
    /\ ctrl.status = "ok"
    /\ req' = [called |-> TRUE, p_excess_w |-> p, current_soc |-> socNum]
    /\ routeLog' = [calls |-> Min(routeLog.calls + 1, MaxCalls),
                    failed |-> routeLog.failed \/ RouteArgError(socNum) # NoError]
    /\ err' = RouteArgError(socNum)
    /\ IF RouteArgError(socNum) # NoError
       THEN alloc' = NoAlloc
       ELSE alloc' = RouteAllocation(p, socNum, ctrl.soc_upper_limit)
    /\ UNCHANGED <<cctor, ctrl, batteryVars, stepVars, staticVars, flowVars, sharedVars>>

\* EPSController(soc_upper_limit=...)
ConstructController ==
    \E limitNum \in SocInputs :
        /\ cctor' = [called |-> TRUE, given |-> TRUE, soc_upper_limit |-> limitNum]
        /\ EPSControllerInit(limitNum)

\* EPSController(): the parameter takes its default
ConstructDefaultController ==
    /\ cctor' = [called |-> TRUE, given |-> FALSE, soc_upper_limit |-> DefaultSocUpperLimit]
    /\ EPSControllerInit(DefaultSocUpperLimit)

RouteCall == \E p \in PowerInputs, socNum \in SocInputs : Route(p, socNum)

InitRouter ==
    /\ ctor = NoArgs
    /\ bm = NoModel
    /\ sim = IdleSim
    /\ steps = <<>>
    /\ err = NoError
    /\ cctor = NoControllerCall
    /\ ctrl = NoController
    /\ routeLog = NoRouteLog
    /\ req = NoRequest
    /\ alloc = NoAlloc
    /\ rsArgs = NoStepArgs
    /\ rsOut = NoStepOut
    /\ pmArgs = NoStaticArgs
    /\ pmOut = NoStaticOut
    /\ cfg = NoConfig
    /\ flow = IdleFlow
    /\ ts = <<>>
    /\ frames = NoFrames

NextRouter ==
    \/ ConstructController
    \/ ConstructDefaultController
    \/ RouteCall

SpecRouter == InitRouter /\ [][NextRouter]_vars
\* ------------------------------------------ _route_step (power flow step)

\* variant of PChargeMax: the headroom is not spread over the timestep
PChargeMaxNoDt(e_headroom_wh, eta, dt_h) ==
    IF FLt(FZero, dt_h) THEN FDiv(e_headroom_wh, eta) ELSE FZero

\* variant of PChargeMax: a timestep of 0 is taken for one hour
PChargeMaxZeroAsUnit(e_headroom_wh, eta, dt_h) ==
    FDiv(e_headroom_wh, FMul(eta, IF FLt(FZero, dt_h) THEN dt_h ELSE F(1)))

\* variant of PChargeMax: a full battery still accepts a trickle
PChargeMaxTrickle(e_headroom_wh, eta, dt_h) ==
    IF FLt(FZero, dt_h)
    THEN FDiv(FMax(e_headroom_wh, F(1)), FMul(eta, dt_h))
    ELSE FZero

\* p_charge_max = e_headroom_wh / (eta * dt_h) if dt_h > 0 else 0.0
PChargeMax(e_headroom_wh, eta, dt_h) ==
    IF FLt(FZero, dt_h) THEN FDiv(e_headroom_wh, FMul(eta, dt_h)) ELSE FZero

\* variant of Remaining: a deficit is routed as a negative surplus
RemainingSigned(p_excess) == p_excess

\* remaining = max(p_excess, 0.0)
Remaining(p_excess) == FMax(p_excess, FZero)

\* variant of BatteryChargingW: the surplus is charged whatever the headroom
BatteryChargingWUncapped(remaining, p_charge_max) == remaining

\* battery_charging_w = min(remaining, p_charge_max)
BatteryChargingW(remaining, p_charge_max) == FMin(remaining, p_charge_max)

\* variant of RemainingAfterCharge: what the battery cannot absorb is dropped
RemainingDropped(remaining, battery_charging_w) ==
    IF battery_charging_w = FZero THEN remaining ELSE FZero

\* remaining -= battery_charging_w
RemainingAfterCharge(remaining, battery_charging_w) == FSub(remaining, battery_charging_w)

\* variant of StepDeltaE: the efficiency is left out of the increment
StepDeltaENoEta(eta, battery_charging_w, dt_h) == FMul(battery_charging_w, dt_h)

\* delta_e = eta * battery_charging_w * dt_h, multiplied from left to right
StepDeltaE(eta, battery_charging_w, dt_h) == FMul(FMul(eta, battery_charging_w), dt_h)

\* new_energy = min(max(battery_energy_wh + delta_e, 0.0), capacity_wh)
StepNewEnergy(battery_energy_wh, delta_e, capacity_wh) ==
    FMin(FMax(FAdd(battery_energy_wh, delta_e), FZero), capacity_wh)

\* _route_step(p_solar_w, p_avionics_w, battery_energy_wh, eta, capacity_wh, dt_h)
RouteStep(p_solar_w, p_avionics_w, battery_energy_wh, eta, capacity_wh, dt_h) ==
    LET p_excess == FSub(p_solar_w, p_avionics_w)
        remaining == Remaining(p_excess)
        e_headroom_wh == FSub(capacity_wh, battery_energy_wh)
        p_charge_max == PChargeMax(e_headroom_wh, eta, dt_h)
        battery_charging_w == BatteryChargingW(remaining, p_charge_max)
        shunt_w == RemainingAfterCharge(remaining, battery_charging_w)
        delta_e == StepDeltaE(eta, battery_charging_w, dt_h)
        new_energy == StepNewEnergy(battery_energy_wh, delta_e, capacity_wh)
    IN [battery_charging_w |-> battery_charging_w, shunt_w |-> shunt_w,
        new_energy_wh |-> new_energy, p_excess_w |-> p_excess]

\* the argument tuples run_simulation can pass to _route_step, not yet called
StepArgInputs ==
    UNION {{[called |-> FALSE, p_solar_w |-> solar, p_avionics_w |-> avionics,
             battery_energy_wh |-> energy, eta |-> eta,
             capacity_wh |-> cap, dt_h |-> dt] :
                solar \in SolarInputs, avionics \in AvionicsInputs,
                energy \in StepEnergyInputs(cap), eta \in StepEtaInputs,
                dt \in StepDtInputs} : cap \in StepCapacityInputs}

\* the call of _route_step on the arguments held in rsArgs
RouteStepCall ==
    /\ ~rsArgs.called
    /\ rsArgs' = [rsArgs EXCEPT !.called = TRUE]
    /\ rsOut' = RouteStep(rsArgs.p_solar_w, rsArgs.p_avionics_w, rsArgs.battery_energy_wh,
                          rsArgs.eta, rsArgs.capacity_wh, rsArgs.dt_h)
    /\ UNCHANGED <<batteryVars, routerVars, err, staticVars, flowVars, sharedVars>>

\* ------------------------------------------------- eps/power_model.py

\* variant of PerBusW: the per-bus powers are listed last bus first
PerBusWReversed(buses) ==
    [k \in 1 .. Len(buses) |->
        buses[Len(buses) + 1 - k][1] * buses[Len(buses) + 1 - k][2]]

\* per_bus = [v * i for v, i in buses]
PerBusW(buses) == [k \in 1 .. Len(buses) |-> buses[k][1] * buses[k][2]]

\* sum(per_bus): the items added to 0 from left to right
RECURSIVE Sum(_)
Sum(seq) ==
    IF seq = <<>> THEN 0 ELSE Sum(SubSeq(seq, 1, Len(seq) - 1)) + seq[Len(seq)]

\* compute_nominal_power(buses)
ComputeNominalPower(buses) ==
    [per_bus_W |-> PerBusW(buses), P_nominal_W |-> Sum(PerBusW(buses))]

\* compute_eol_power(p_nominal_w, alpha), for a whole alpha
ComputeEolPower(p_nominal_w, alpha) == p_nominal_w * (1 + alpha)

\* compute_excess_solar_power(p_solar_w, p_eol_w)
ComputeExcessSolarPower(p_solar_w, p_eol_w) == p_solar_w - p_eol_w

\* compute_battery_remaining_energy: the range check of soc
RemainingEnergyArgError(soc) ==
    IF ~(0 <= soc /\ soc <= SocDen)
    THEN ValueError("State of charge must be in [0.0, 1.0]")
    ELSE NoError

\* compute_battery_remaining_energy: e_battery_wh * (1.0 - soc), as a fraction
ComputeBatteryRemainingEnergy(e_battery_wh, soc) ==
    Fraction(e_battery_wh * (SocDen - soc), SocDen)

\* variant of ChargingTimeArgError: the efficiency has no upper bound
ChargingTimeArgErrorNoUpper(p_excess_w, eta) ==
    IF ~(0 < eta)
    THEN ValueError("Charging efficiency must be in (0.0, 1.0]")
    ELSE IF p_excess_w <= 0
    THEN ValueError("Excess power must be positive for charging")
    ELSE NoError

\* compute_charging_time: the two checks, in the order of the code
ChargingTimeArgError(p_excess_w, eta) ==
    IF ~(0 < eta /\ eta <= EtaDen)
    THEN ValueError("Charging efficiency must be in (0.0, 1.0]")
    ELSE IF p_excess_w <= 0
    THEN ValueError("Excess power must be positive for charging")
    ELSE NoError

\* compute_charging_time: e_remaining_wh / (p_excess_w * eta), in ticks
ComputeChargingTime(e_remaining_wh, p_excess_w, eta) ==
    Fraction(e_remaining_wh * EtaDen, p_excess_w * eta)

\* the calls of the power_model functions a caller can make, not yet made
StaticArgInputs ==
    {[NoStaticArgs EXCEPT !.op = "compute_nominal_power", !.buses = b] : b \in BusInputs}
    \cup {[NoStaticArgs EXCEPT !.op = "compute_battery_remaining_energy",
                               !.e_battery_wh = e, !.soc = socNum] :
              e \in StaticEnergyInputs, socNum \in SocInputs}
    \cup {[NoStaticArgs EXCEPT !.op = "compute_charging_time", !.e_remaining_wh = e,
                               !.p_excess_w = p, !.eta = etaNum] :
              e \in StaticEnergyInputs, p \in StaticPowerInputs, etaNum \in EtaInputs}

\* the call compute_nominal_power(buses)
ComputeNominalPowerCall ==
    /\ pmArgs.op = "compute_nominal_power"
    /\ ~pmArgs.called
    /\ pmArgs' = [pmArgs EXCEPT !.called = TRUE]
    /\ pmOut' = [returned |-> TRUE, value |-> ComputeNominalPower(pmArgs.buses)]
    /\ err' = NoError
    /\ UNCHANGED <<batteryVars, routerVars, stepVars, flowVars, sharedVars>>

\* the call compute_battery_remaining_energy(e_battery_wh, soc)
ComputeBatteryRemainingEnergyCall ==
    /\ pmArgs.op = "compute_battery_remaining_energy"
    /\ ~pmArgs.called
    /\ pmArgs' = [pmArgs EXCEPT !.called = TRUE]
    /\ err' = RemainingEnergyArgError(pmArgs.soc)
    /\ IF RemainingEnergyArgError(pmArgs.soc) # NoError
       THEN pmOut' = NoStaticOut
       ELSE pmOut' = [returned |-> TRUE,
                      value |-> ComputeBatteryRemainingEnergy(pmArgs.e_battery_wh,
                                                              pmArgs.soc)]
    /\ UNCHANGED <<batteryVars, routerVars, stepVars, flowVars, sharedVars>>

\* the call compute_charging_time(e_remaining_wh, p_excess_w, eta)
ComputeChargingTimeCall ==
    /\ pmArgs.op = "compute_charging_time"
    /\ ~pmArgs.called
    /\ pmArgs' = [pmArgs EXCEPT !.called = TRUE]
    /\ err' = ChargingTimeArgError(pmArgs.p_excess_w, pmArgs.eta)
    /\ IF ChargingTimeArgError(pmArgs.p_excess_w, pmArgs.eta) # NoError
       THEN pmOut' = NoStaticOut
       ELSE pmOut' = [returned |-> TRUE,
                      value |-> ComputeChargingTime(pmArgs.e_remaining_wh,
                                                    pmArgs.p_excess_w, pmArgs.eta)]
    /\ UNCHANGED <<batteryVars, routerVars, stepVars, flowVars, sharedVars>>
\* ------------------------------------- run_simulation (power flow loop)

\* the values eps/config.py and the execution parameters can be set to
ConfigInputs ==
    {[POWER_BUSES |-> buses,
      EOL_DEGRADATION_FACTOR |-> alpha,
      SOLAR_ARRAY_POWER |-> solar,
      BATTERY_CAPACITY_WH |-> cap,
      BATTERY_INITIAL_SOC |-> soc,
      BATTERY_CHARGING_EFFICIENCY |-> eta,
      DT_H |-> w[1],
      DURATION_H |-> w[2]] :
        buses \in FlowBusInputs, alpha \in FlowAlphaInputs, solar \in SolarInputs,
        cap \in StepCapacityInputs, soc \in FlowSocInputs, eta \in StepEtaInputs,
        w \in FlowWindowInputs}

\* one entry of every list of EPSTimeSeries
FlowRecord(time_h, p_solar, p_eol, charging_w, shunt_w, battery_energy, capacity_wh) ==
    [time_h |-> time_h, solar_power_w |-> p_solar, avionics_power_w |-> p_eol,
     battery_charging_w |-> charging_w, shunt_dissipation_w |-> shunt_w,
     battery_energy_wh |-> battery_energy,
     battery_soc |-> FDiv(battery_energy, capacity_wh)]

\* run_simulation: static power, initial energy, step count, record of step 0
RunSimulationStart ==
    /\ flow.pc = "idle"
    /\ LET nominal == ComputeNominalPower(cfg.POWER_BUSES)
           p_eol == F(ComputeEolPower(nominal.P_nominal_W, cfg.EOL_DEGRADATION_FACTOR))
           p_solar == cfg.SOLAR_ARRAY_POWER
           battery_energy == FMul(cfg.BATTERY_INITIAL_SOC, cfg.BATTERY_CAPACITY_WH)
       IN /\ flow' = [pc |-> "loop", p_eol |-> p_eol, p_solar |-> p_solar,
                      battery_energy |-> battery_energy, time_h |-> FZero,
                      n_steps |-> FloorInt(FDiv(cfg.DURATION_H, cfg.DT_H)), i |-> 0]
          /\ ts' = <<FlowRecord(FZero, p_solar, p_eol, FZero, FZero, battery_energy,
                                cfg.BATTERY_CAPACITY_WH)>>
    /\ UNCHANGED <<cfg, batteryVars, routerVars, stepVars, staticVars, sharedVars, err>>

\* run_simulation: one iteration of the loop, a _route_step call and a record
RunSimulationStep ==
    /\ flow.pc = "loop"
    /\ flow.i < flow.n_steps
    /\ rsArgs' = [called |-> TRUE, p_solar_w |-> flow.p_solar,
                  p_avionics_w |-> flow.p_eol,
                  battery_energy_wh |-> flow.battery_energy,
                  eta |-> cfg.BATTERY_CHARGING_EFFICIENCY,
                  capacity_wh |-> cfg.BATTERY_CAPACITY_WH, dt_h |-> cfg.DT_H]
    /\ rsOut' = RouteStep(flow.p_solar, flow.p_eol, flow.battery_energy,
                          cfg.BATTERY_CHARGING_EFFICIENCY, cfg.BATTERY_CAPACITY_WH, cfg.DT_H)
    /\ flow' = [flow EXCEPT !.battery_energy = rsOut'.new_energy_wh,
                            !.time_h = FAdd(flow.time_h, cfg.DT_H),
                            !.i = flow.i + 1]
    /\ ts' = Append(ts, FlowRecord(Round10(flow'.time_h), flow.p_solar, flow.p_eol,
                                   rsOut'.battery_charging_w, rsOut'.shunt_w,
                                   rsOut'.new_energy_wh, cfg.BATTERY_CAPACITY_WH))
    /\ UNCHANGED <<cfg, batteryVars, routerVars, staticVars, sharedVars, err>>

\* run_simulation: loop exhausted, return ts
RunSimulationReturn ==
    /\ flow.pc = "loop"
    /\ flow.i = flow.n_steps
    /\ flow' = [flow EXCEPT !.pc = "done"]
    /\ UNCHANGED <<cfg, ts, batteryVars, routerVars, stepVars, staticVars, sharedVars, err>>

\* ------------------------------------------------------ specifications
Construct ==
    \E capacity_wh \in BatteryCapacityInputs, initial_soc \in BatterySocInputs,
       eta \in BatteryEtaInputs : BatteryModelInit(capacity_wh, initial_soc, eta)

Simulate ==
    \E p \in DrivePowerInputs, w \in WindowInputs : SimulateCall(p, w[1], w[2])

InitBattery ==
    /\ ctor = NoArgs
    /\ bm = NoModel
    /\ sim = IdleSim
    /\ steps = <<>>
    /\ err = NoError
    /\ cctor = NoControllerCall
    /\ ctrl = NoController
    /\ routeLog = NoRouteLog
    /\ req = NoRequest
    /\ alloc = NoAlloc
    /\ rsArgs = NoStepArgs
    /\ rsOut = NoStepOut
    /\ pmArgs = NoStaticArgs
    /\ pmOut = NoStaticOut
    /\ cfg = NoConfig
    /\ flow = IdleFlow
    /\ ts = <<>>
    /\ frames = NoFrames

NextBattery ==
    \/ Construct
    \/ Simulate
    \/ SimulateStep
    \/ SimulateReturn

SpecBattery == InitBattery /\ [][NextBattery]_vars

InitStep ==
    /\ ctor = NoArgs
    /\ bm = NoModel
    /\ sim = IdleSim
    /\ steps = <<>>
    /\ err = NoError
    /\ cctor = NoControllerCall
    /\ ctrl = NoController
    /\ routeLog = NoRouteLog
    /\ req = NoRequest
    /\ alloc = NoAlloc
    /\ rsArgs \in StepArgInputs
    /\ rsOut = NoStepOut
    /\ pmArgs = NoStaticArgs
    /\ pmOut = NoStaticOut
    /\ cfg = NoConfig
    /\ flow = IdleFlow
    /\ ts = <<>>
    /\ frames = NoFrames

NextStep == RouteStepCall

SpecStep == InitStep /\ [][NextStep]_vars

InitStatic ==
    /\ ctor = NoArgs
    /\ bm = NoModel
    /\ sim = IdleSim
    /\ steps = <<>>
    /\ err = NoError
    /\ cctor = NoControllerCall
    /\ ctrl = NoController
    /\ routeLog = NoRouteLog
    /\ req = NoRequest
    /\ alloc = NoAlloc
    /\ rsArgs = NoStepArgs
    /\ rsOut = NoStepOut
    /\ pmArgs \in StaticArgInputs
    /\ pmOut = NoStaticOut
    /\ cfg = NoConfig
    /\ flow = IdleFlow
    /\ ts = <<>>
    /\ frames = NoFrames

NextStatic ==
    \/ ComputeNominalPowerCall
    \/ ComputeBatteryRemainingEnergyCall
    \/ ComputeChargingTimeCall

SpecStatic == InitStatic /\ [][NextStatic]_vars

InitFlow ==
    /\ ctor = NoArgs
    /\ bm = NoModel
    /\ sim = IdleSim
    /\ steps = <<>>
    /\ err = NoError
    /\ cctor = NoControllerCall
    /\ ctrl = NoController
    /\ routeLog = NoRouteLog
    /\ req = NoRequest
    /\ alloc = NoAlloc
    /\ rsArgs = NoStepArgs
    /\ rsOut = NoStepOut
    /\ pmArgs = NoStaticArgs
    /\ pmOut = NoStaticOut
    /\ cfg \in ConfigInputs
    /\ flow = IdleFlow
    /\ ts = <<>>
    /\ frames = NoFrames

NextFlow ==
    \/ RunSimulationStart
    \/ RunSimulationStep
    \/ RunSimulationReturn

SpecFlow == InitFlow /\ [][NextFlow]_vars

InitShared ==
    /\ ctor = NoArgs
    /\ bm = NoModel
    /\ sim = IdleSim
    /\ steps = <<>>
    /\ err = NoError
    /\ cctor = NoControllerCall
    /\ ctrl = NoController
    /\ routeLog = NoRouteLog
    /\ req = NoRequest
    /\ alloc = NoAlloc
    /\ rsArgs = NoStepArgs
    /\ rsOut = NoStepOut
    /\ pmArgs = NoStaticArgs
    /\ pmOut = NoStaticOut
    /\ cfg = NoConfig
    /\ flow = IdleFlow
    /\ ts = <<>>
    /\ frames = NoFrames

NextShared ==
    \/ ConstructShared
    \/ CallerCall
    \/ CallerStep
    \/ CallerReturn

SpecShared == InitShared /\ [][NextShared]_vars
\* BatteryModel(...) on arguments of which at most one is out of range
ConstructChecked ==
    \E args \in {<<F(100), F(1), F(1)>>, <<F(0), F(1), F(1)>>,
                 <<F(100), Decimal(15, 1), Decimal(9, 1)>>, <<F(100), F(1), F(0)>>} :
        BatteryModelInit(args[1], args[2], args[3])

\* simulate(...) on a window that is accepted and on windows that are rejected
SimulateChecked ==
    \E w \in {<<F(1), F(0)>>, <<F(0), F(1)>>, <<F(2), F(1)>>, <<F(1), F(1)>>} :
        SimulateCall(F(1), w[1], w[2])

\* the constructors and the calls of both components, each with its checks
NextErrors ==
    \/ ConstructChecked
    \/ SimulateChecked
    \/ SimulateStep
    \/ SimulateReturn
    \/ ConstructController
    \/ ConstructDefaultController
    \/ RouteCall

SpecErrors == InitBattery /\ [][NextErrors]_vars

\* ---------------------------------------------------------------- claims
\* a series has been returned by simulate()
Returned == sim.pc = "done"

\* a route() call has returned an allocation
Routed == alloc.returned

\* eta * drivePower * timestep of the current simulate() call
DriveDelta == FMul(FMul(bm.eta, sim.p_excess_w), sim.dt_h)

\* the absolute value of a number
FAbs(x) == <<x[1] * x[1], x[2], x[3]>>

\* C1: every snapshot of a returned series, the initial one included, has
\* 0 <= storedEnergy <= capacity.
C1_EnergyBounds ==
    Returned => \A k \in 1 .. Len(steps) :
                    /\ FLeq(FZero, steps[k].energy_wh)
                    /\ FLeq(steps[k].energy_wh, ctor.capacity_wh)

\* a returned series in which a step overshot the capacity and was clamped
C1_Witness ==
    /\ Returned
    /\ \E k \in 2 .. Len(steps) :
           /\ FLt(ctor.capacity_wh, ExactAdd(steps[k - 1].energy_wh, DriveDelta))
           /\ steps[k].energy_wh = ctor.capacity_wh

\* C2: for excessPower > 0 and currentSoc in [0,1] the four sink powers of the
\* returned allocation sum to excessPower.
C2_Conservation ==
    (Routed /\ req.p_excess_w > 0) =>
        alloc.battery_charge_w + alloc.payload_w + alloc.supercap_w + alloc.shunt_w
            = req.p_excess_w

\* a surplus routed to a battery that is not full
C2_Witness ==
    /\ Routed
    /\ req.p_excess_w > 0
    /\ req.current_soc < ctrl.soc_upper_limit
    /\ alloc.battery_charge_w = req.p_excess_w

\* C3 as stated: for any excessPower, batteryChargePower is 0 if and only if
\* currentSoc >= socUpperLimit.
C3_Original ==
    Routed => (alloc.battery_charge_w = 0 <=> req.current_soc >= ctrl.soc_upper_limit)

\* C3 amended: for excessPower > 0, batteryChargePower is 0 if and only if
\* currentSoc >= socUpperLimit; for excessPower <= 0, batteryChargePower is 0
\* whatever currentSoc is.
C3_FullGating ==
    Routed =>
        /\ req.p_excess_w > 0 =>
               (alloc.battery_charge_w = 0 <=> req.current_soc >= ctrl.soc_upper_limit)
        /\ req.p_excess_w <= 0 => alloc.battery_charge_w = 0

\* a surplus offered to a battery exactly at the limit
C3_Witness ==
    /\ Routed
    /\ req.p_excess_w > 0
    /\ req.current_soc = ctrl.soc_upper_limit
    /\ alloc.battery_charge_w = 0

\* C4: for excessPower <= 0 all four sink powers are 0 and the excessPower
\* field of the allocation is the input value.
C4_DeficitNoOp ==
    (Routed /\ req.p_excess_w <= 0) =>
        /\ alloc.battery_charge_w = 0
        /\ alloc.payload_w = 0
        /\ alloc.supercap_w = 0
        /\ alloc.shunt_w = 0
        /\ alloc.p_excess_w = req.p_excess_w

\* a deficit routed while the battery is below the limit
C4_Witness ==
    /\ Routed
    /\ req.p_excess_w < 0
    /\ req.current_soc < ctrl.soc_upper_limit
    /\ ~alloc.battery_full

\* C5: at each snapshot k >= 1 the recorded energyDelta is the change actually
\* applied, storedEnergy[k] - storedEnergy[k-1]; so with positive drive power,
\* once a snapshot is at capacity every later energyDelta is 0.
C5_DeltaIsAppliedChange ==
    Returned =>
        /\ \A k \in 2 .. Len(steps) :
               steps[k].delta_e_wh = FSub(steps[k].energy_wh, steps[k - 1].energy_wh)
        /\ FLt(FZero, sim.p_excess_w) =>
               \A j \in 1 .. Len(steps) : \A k \in (j + 1) .. Len(steps) :
                   steps[j].energy_wh = ctor.capacity_wh => steps[k].delta_e_wh = FZero

\* C6: storedEnergy[0] = initialSoc * capacity and each later snapshot is
\* clamp(storedEnergy[k-1] + efficiency * drivePower * timestep, 0, capacity),
\* each operation rounded to the nearest float.
C6_Recurrence ==
    Returned =>
        /\ steps[1].energy_wh = FMul(ctor.initial_soc, ctor.capacity_wh)
        /\ bm.capacity_wh = ctor.capacity_wh
        /\ \A k \in 2 .. Len(steps) :
               LET x == FAdd(steps[k - 1].energy_wh,
                             FMul(FMul(ctor.eta, sim.p_excess_w), sim.dt_h))
               IN steps[k].energy_wh
                      = IF FLt(x, FZero) THEN FZero
                        ELSE IF FLt(ctor.capacity_wh, x) THEN ctor.capacity_wh ELSE x

\* a returned discharge series with a free step followed by a step clamped at 0
C6_Witness ==
    /\ Returned
    /\ Len(steps) >= 3
    /\ FLt(FZero, steps[2].energy_wh)
    /\ FLt(steps[2].energy_wh, steps[1].energy_wh)
    /\ FLt(ExactAdd(steps[2].energy_wh, DriveDelta), FZero)
    /\ steps[3].energy_wh = FZero

\* C7: the energyDelta recorded at every snapshot k >= 1 is
\* efficiency * drivePower * timestep, and the energyDelta of snapshot 0 is 0.
C7_RecordedDelta ==
    Returned =>
        /\ steps[1].delta_e_wh = FZero
        /\ \A k \in 2 .. Len(steps) :
               steps[k].delta_e_wh = FMul(FMul(ctor.eta, sim.p_excess_w), sim.dt_h)

\* a returned series whose last step was clamped at capacity, so that the
\* recorded increment is more than the change of the stored energy
C7_Witness ==
    /\ Returned
    /\ Len(steps) >= 3
    /\ steps[Len(steps)].energy_wh = ctor.capacity_wh
    /\ FLt(ExactAdd(steps[Len(steps)].energy_wh, FNeg(steps[Len(steps) - 1].energy_wh)),
           steps[Len(steps)].delta_e_wh)

\* C8: a returned series has floor(duration / timestep) + 1 snapshots, the
\* quotient being the float quotient, and its first snapshot has time 0,
\* energyDelta 0 and storedEnergy initialSoc * capacity.
C8_Length ==
    Returned =>
        /\ \E n \in 0 .. Len(steps) :
               /\ FLeq(F(n), FDiv(sim.duration_h, sim.dt_h))
               /\ FLt(FDiv(sim.duration_h, sim.dt_h), F(n + 1))
               /\ Len(steps) = n + 1
        /\ steps[1].time_h = FZero
        /\ steps[1].delta_e_wh = FZero
        /\ steps[1].energy_wh = FMul(ctor.initial_soc, ctor.capacity_wh)

\* a returned series whose duration is not a multiple of the timestep
C8_Witness ==
    /\ Returned
    /\ Len(steps) >= 3
    /\ FLt(ExactMul(F(Len(steps) - 1), sim.dt_h), sim.duration_h)

TenTen == Canon(1, Ten10, 0)

\* the float nearest to the decimal of 10 places nearest to x, for x > 0
NearestDecimal(x) ==
    IF x[3] >= 0 THEN x
    ELSE LET m == BigRoundShr(BigMul(x[2], Ten10), 0 - x[3])
         IN  IF m = <<>> THEN FZero ELSE DivRound(1, m, Ten10, 0)

\* the label t is k * timestep rounded to 10 decimal places: t is the float of
\* a decimal of 10 places, and t * 10^10 is within 1/2 of k * dt * 10^10, up to
\* the 2^-10 that the roundings of the k additions and of the label can add
IsLabelOf(t, k, dt) ==
    /\ FLeq(FZero, t)
    /\ NearestDecimal(t) = t
    /\ FLeq(FAbs(ExactAdd(ExactMul(t, TenTen),
                          FNeg(ExactMul(ExactMul(F(k), dt), TenTen)))),
            ExactAdd(Pow2(0 - 1), Pow2(0 - 10)))

C10_SocConsistency ==
    Returned => \A k \in 1 .. Len(steps) :
                    /\ steps[k].soc = FDiv(steps[k].energy_wh, ctor.capacity_wh)
                    /\ FLeq(FZero, steps[k].soc)
                    /\ FLeq(steps[k].soc, F(1))

\* a returned charge series that passes a partial charge and ends full
C10_Witness ==
    /\ Returned
    /\ Len(steps) >= 3
    /\ FLt(FZero, steps[2].soc)
    /\ FLt(steps[2].soc, F(1))
    /\ steps[Len(steps)].soc = F(1)
    /\ steps[1].soc # F(1)

\* the simulate() call has got past or failed its argument checks
SimulateCalled == sim.pc \in {"loop", "done", "error"}

\* C11: simulate fails and returns no series exactly when timestep <= 0, or
\* duration <= 0, or timestep > duration; each bound has its own message.
C11_SimulatePreconditions ==
    SimulateCalled =>
        LET dtBad == FLeq(sim.dt_h, FZero)
            durBad == FLeq(sim.duration_h, FZero)
            orderBad == FLt(sim.duration_h, sim.dt_h)
            bad == dtBad \/ durBad \/ orderBad
        IN /\ sim.pc = "error" <=> bad
           /\ bad => (steps = <<>> /\ err.kind = "ValueError")
           /\ ~bad => (err = NoError /\ Len(steps) >= 1)
           /\ dtBad => err.msg = "Timestep must be positive"
           /\ (~dtBad /\ durBad) => err.msg = "Duration must be positive"
           /\ (~dtBad /\ ~durBad /\ orderBad) => err.msg = "Timestep exceeds duration"

\* a call rejected only because the timestep exceeds the duration
C11_Witness ==
    /\ sim.pc = "error"
    /\ FLt(FZero, sim.duration_h)
    /\ FLt(sim.duration_h, sim.dt_h)
    /\ steps = <<>>

\* C12: a BatteryModel is constructed exactly when capacity > 0, initialSoc is
\* in [0,1] and efficiency is in (0,1]; otherwise the constructor raises, and
\* no instance holds an out-of-range parameter.
C12_ConstructorRange ==
    LET valid == /\ FLt(FZero, ctor.capacity_wh)
                 /\ FLeq(FZero, ctor.initial_soc) /\ FLeq(ctor.initial_soc, F(1))
                 /\ FLt(FZero, ctor.eta) /\ FLeq(ctor.eta, F(1))
    IN /\ bm.status = "ok" <=> valid
       /\ (ctor # NoArgs /\ ~valid) => (bm = NoModel /\ err.kind = "ValueError")
       /\ bm.status = "ok" =>
              /\ bm.capacity_wh = ctor.capacity_wh
              /\ bm.eta = ctor.eta
              /\ FLeq(FZero, bm.initial_energy_wh)
              /\ FLeq(bm.initial_energy_wh, bm.capacity_wh)

\* a construction rejected only because the efficiency is 0
C12_Witness ==
    /\ FLt(FZero, ctor.capacity_wh)
    /\ ctor.initial_soc = F(1)
    /\ ctor.eta = FZero
    /\ bm.status = "none"
    /\ err.kind = "ValueError"

\* C13: route raises and returns no allocation whenever currentSoc is outside
\* [0,1], for every excessPower, deficits included; nothing is clamped.
C13_RoutePrecondition ==
    req.called =>
        LET inRange == 0 <= req.current_soc /\ req.current_soc <= SocDen
        IN /\ alloc.returned <=> inRange
           /\ ~inRange => (alloc = NoAlloc /\ err.kind = "ValueError")
           /\ inRange => err = NoError

\* a deficit call rejected because the SoC is above 1
C13_Witness ==
    /\ req.called
    /\ req.p_excess_w <= 0
    /\ req.current_soc > SocDen
    /\ ~alloc.returned

\* C14: an EPSController is constructed exactly when socUpperLimit is in
\* (0,1]; otherwise the constructor raises; without a value the limit is 1.0.
C14_ControllerRange ==
    cctor.called =>
        LET valid == 0 < cctor.soc_upper_limit /\ cctor.soc_upper_limit <= SocDen
        IN /\ ctrl.status = "ok" <=> valid
           /\ ~valid => (ctrl = NoController /\ err.kind = "ValueError")
           /\ valid => ctrl.soc_upper_limit = cctor.soc_upper_limit
           /\ ~cctor.given => (ctrl.status = "ok" /\ ctrl.soc_upper_limit = SocDen)

\* a construction rejected because the limit is 0
C14_Witness ==
    /\ cctor.called
    /\ cctor.given
    /\ cctor.soc_upper_limit = 0
    /\ ctrl.status = "none"
\* the messages of the constructors of BatteryModel and EPSController
ConstructorMessages ==
    {"Battery capacity must be positive", "Initial SoC must be in [0.0, 1.0]",
     "Charging efficiency must be in (0.0, 1.0]", "soc_upper_limit must be in (0.0, 1.0]"}

\* the messages of simulate() and route()
CallMessages ==
    {"Timestep must be positive", "Duration must be positive", "Timestep exceeds duration",
     "current_soc must be in [0.0, 1.0]"}

\* C15: violations found by the constructors of BatteryModel and EPSController
\* have the kind InvalidConfiguration, and violations found by simulate and
\* route have the distinct kind InvalidArgument.
C15_Original ==
    /\ err.msg \in ConstructorMessages => err.kind = "InvalidConfiguration"
    /\ err.msg \in CallMessages => err.kind = "InvalidArgument"

\* C16: for excessPower > 0 a full battery sends everything to the shunt and
\* a battery below the limit takes everything, whatever its headroom; the
\* shunt power is never negative.
C16_AllOrNothing ==
    Routed =>
        /\ alloc.shunt_w >= 0
        /\ req.p_excess_w > 0 =>
               IF req.current_soc >= ctrl.soc_upper_limit
               THEN alloc.shunt_w = req.p_excess_w /\ alloc.battery_charge_w = 0
               ELSE alloc.battery_charge_w = req.p_excess_w /\ alloc.shunt_w = 0

\* a surplus above 1 W offered to a battery strictly above the limit, and
\* shunted whole
C16_Witness ==
    /\ Routed
    /\ req.p_excess_w > 1
    /\ req.current_soc > ctrl.soc_upper_limit
    /\ alloc.shunt_w = req.p_excess_w

\* C17: for positive and non-positive excessPower alike, batteryFull is
\* (currentSoc >= socUpperLimit) on the input SoC.
C17_BatteryFullFlag ==
    Routed => (alloc.battery_full <=> req.current_soc >= ctrl.soc_upper_limit)

\* a deficit call on a full battery reports batteryFull
C17_Witness ==
    /\ Routed
    /\ req.p_excess_w <= 0
    /\ req.current_soc >= ctrl.soc_upper_limit
    /\ alloc.battery_full

\* C18: payloadPower and supercapPower are 0 in every returned allocation.
C18_ReservedSinksZero ==
    Routed => (alloc.payload_w = 0 /\ alloc.supercap_w = 0)

\* a surplus routed with both reserved sinks at 0
C18_Witness ==
    /\ Routed
    /\ req.p_excess_w > 0
    /\ alloc.payload_w = 0
    /\ alloc.supercap_w = 0
    /\ alloc.battery_charge_w + alloc.shunt_w = req.p_excess_w

\* C19: route leaves the controller as constructed, so after any sequence of
\* route calls, failed ones included, a call returns the allocation that a
\* fresh controller with the same socUpperLimit returns.
C19_RoutePure ==
    req.called =>
        /\ ctrl = [status |-> "ok", soc_upper_limit |-> cctor.soc_upper_limit]
        /\ Routed => alloc = RouteAllocation(req.p_excess_w, req.current_soc,
                                             cctor.soc_upper_limit)

\* an allocation returned after earlier calls on the same controller, one of
\* which failed
C19_Witness ==
    /\ Routed
    /\ routeLog.calls >= 2
    /\ routeLog.failed

\* max(solarPower - avionicsPower, 0) of the last _route_step call
StepSurplus ==
    LET excess == FSub(rsArgs.p_solar_w, rsArgs.p_avionics_w)
    IN  IF FLt(FZero, excess) THEN excess ELSE FZero

\* C20 as stated: in _route_step with stored energy in [0, capacity] and
\* timestep > 0, batteryChargingPower + shuntPower = max(solarPower -
\* avionicsPower, 0).
C20_Original ==
    (/\ rsArgs.called
     /\ FLeq(FZero, rsArgs.battery_energy_wh)
     /\ FLeq(rsArgs.battery_energy_wh, rsArgs.capacity_wh)
     /\ FLt(FZero, rsArgs.dt_h)) =>
        FAdd(rsOut.battery_charging_w, rsOut.shunt_w) = StepSurplus

\* C20 amended: in _route_step with stored energy in [0, capacity] and
\* timestep > 0, shuntPower is the surplus max(solarPower - avionicsPower, 0)
\* minus batteryChargingPower rounded to the nearest float, and is not
\* negative; batteryChargingPower + shuntPower differs from the surplus by at
\* most 2^-53 of the surplus, and is the surplus exactly when the battery takes
\* nothing, or at least half of the surplus.
C20_StepConservation ==
    (/\ rsArgs.called
     /\ FLeq(FZero, rsArgs.battery_energy_wh)
     /\ FLeq(rsArgs.battery_energy_wh, rsArgs.capacity_wh)
     /\ FLt(FZero, rsArgs.dt_h)) =>
        LET c == rsOut.battery_charging_w
            sh == rsOut.shunt_w
            gap == ExactAdd(ExactAdd(c, sh), FNeg(StepSurplus))
        IN /\ sh = FAdd(StepSurplus, FNeg(c))
           /\ FLeq(FZero, sh)
           /\ FLeq(FAbs(gap), Scale2(StepSurplus, 0 - MantBits))
           /\ (c = FZero \/ FLeq(StepSurplus, Scale2(c, 1))) =>
                  /\ gap[1] = 0
                  /\ FAdd(c, sh) = StepSurplus

\* a step in which the headroom caps the charge below half of the surplus:
\* the shunt takes the rest, rounded, and the two do not add up to the surplus
C20_Witness ==
    /\ rsArgs.called
    /\ FLt(rsArgs.battery_energy_wh, rsArgs.capacity_wh)
    /\ FLt(FZero, rsArgs.dt_h)
    /\ FLt(FZero, rsOut.battery_charging_w)
    /\ FLt(FZero, rsOut.shunt_w)
    /\ FAdd(rsOut.battery_charging_w, rsOut.shunt_w) # StepSurplus

\* C26: in _route_step with timestep = 0, batteryChargingPower is 0, the
\* stored energy is returned unchanged and the whole non-negative excess goes
\* to shunt.
C26_ZeroTimestep ==
    (rsArgs.called /\ rsArgs.dt_h = FZero) =>
        /\ rsOut.battery_charging_w = FZero
        /\ rsOut.new_energy_wh = rsArgs.battery_energy_wh
        /\ rsOut.shunt_w = StepSurplus

\* a surplus offered with timestep 0 to a battery that has headroom: nothing
\* is charged and the surplus is shunted whole
C26_Witness ==
    /\ rsArgs.called
    /\ rsArgs.dt_h = FZero
    /\ FLt(rsArgs.p_avionics_w, rsArgs.p_solar_w)
    /\ FLt(rsArgs.battery_energy_wh, rsArgs.capacity_wh)
    /\ rsOut.shunt_w = FSub(rsArgs.p_solar_w, rsArgs.p_avionics_w)
    /\ rsOut.new_energy_wh = rsArgs.battery_energy_wh

\* storedEnergy + efficiency * batteryChargingPower * timestep of the last
\* _route_step call, before the clamp
StepRawEnergy ==
    FAdd(rsArgs.battery_energy_wh,
         FMul(FMul(rsArgs.eta, rsOut.battery_charging_w), rsArgs.dt_h))

C25_Original ==
    Returned => \A k \in 2 .. Len(steps) :
                    /\ (steps[k - 1].energy_wh = ctor.capacity_wh /\ FLt(sim.p_excess_w, FZero))
                           => FLt(steps[k].energy_wh, ctor.capacity_wh)
                    /\ (steps[k - 1].energy_wh = FZero /\ FLt(FZero, sim.p_excess_w))
                           => FLt(FZero, steps[k].energy_wh)

\* C25 amended: a snapshot at capacity followed by a step with negative drive
\* power is followed by a snapshot below capacity when efficiency * |drive
\* power| * timestep is at least capacity * 2^-52, and by a snapshot at
\* capacity again when it is less than capacity * 2^-55 and the float sum
\* rounds back to capacity; a snapshot at 0 followed by a step with positive
\* drive power is followed by a snapshot above 0 unless efficiency * drive
\* power * timestep underflows to 0, and then by a snapshot at 0.
C25_BoundsNotAbsorbing ==
    Returned => \A k \in 2 .. Len(steps) :
        LET delta == FMul(FMul(ctor.eta, sim.p_excess_w), sim.dt_h)
        IN /\ (steps[k - 1].energy_wh = ctor.capacity_wh /\ FLt(sim.p_excess_w, FZero)) =>
                  /\ FLeq(steps[k].energy_wh, ctor.capacity_wh)
                  /\ FLeq(Scale2(ctor.capacity_wh, 0 - 52), FAbs(delta))
                         => FLt(steps[k].energy_wh, ctor.capacity_wh)
                  /\ FLt(FAbs(delta), Scale2(ctor.capacity_wh, 0 - 55))
                         => steps[k].energy_wh = ctor.capacity_wh
           /\ (steps[k - 1].energy_wh = FZero /\ FLt(FZero, sim.p_excess_w)) =>
                  /\ FLt(FZero, delta) => FLt(FZero, steps[k].energy_wh)
                  /\ delta = FZero => steps[k].energy_wh = FZero

\* a run started at initialSoc 1 with negative drive power leaves the upper
\* bound on its first step
C25_Witness ==
    /\ Returned
    /\ ctor.initial_soc = F(1)
    /\ FLt(sim.p_excess_w, FZero)
    /\ steps[1].energy_wh = ctor.capacity_wh
    /\ FLt(steps[2].energy_wh, ctor.capacity_wh)


\* the sum of the items k .. Len(seq) of a sequence, taken from the right
RECURSIVE TotalFrom(_, _)
TotalFrom(seq, k) == IF k > Len(seq) THEN 0 ELSE seq[k] + TotalFrom(seq, k + 1)

\* C23: compute_charging_time raises exactly when efficiency is outside (0,1]
\* or excessPower <= 0, and compute_battery_remaining_energy exactly when soc
\* is outside [0,1]; otherwise they return remainingEnergy /
\* (efficiency * excessPower) and capacity * (1 - soc).
C23_StaticGuards ==
    /\ (pmArgs.called /\ pmArgs.op = "compute_charging_time") =>
           LET bad == \/ ~(0 < pmArgs.eta /\ pmArgs.eta <= EtaDen)
                      \/ pmArgs.p_excess_w <= 0
           IN /\ pmOut.returned <=> ~bad
              /\ bad => (err.kind = "ValueError" /\ pmOut = NoStaticOut)
              /\ ~bad =>
                     /\ err = NoError
                     /\ pmOut.value[2] > 0
                     /\ pmOut.value[1] * pmArgs.eta * pmArgs.p_excess_w
                            = pmArgs.e_remaining_wh * EtaDen * pmOut.value[2]
    /\ (pmArgs.called /\ pmArgs.op = "compute_battery_remaining_energy") =>
           LET bad == ~(0 <= pmArgs.soc /\ pmArgs.soc <= SocDen)
           IN /\ pmOut.returned <=> ~bad
              /\ bad => (err.kind = "ValueError" /\ pmOut = NoStaticOut)
              /\ ~bad =>
                     /\ err = NoError
                     /\ pmOut.value[2] > 0
                     /\ pmOut.value[1] * SocDen
                            = pmArgs.e_battery_wh * (SocDen - pmArgs.soc) * pmOut.value[2]

\* compute_charging_time called with excessPower 0 and a valid efficiency is
\* rejected
C23_Witness ==
    /\ pmArgs.called
    /\ pmArgs.op = "compute_charging_time"
    /\ pmArgs.p_excess_w = 0
    /\ pmArgs.eta = EtaDen
    /\ ~pmOut.returned
    /\ err.msg = "Excess power must be positive for charging"

\* C24: compute_nominal_power returns one per-bus power per input bus, in
\* input order, each voltage * current, and a total equal to their sum.
C24_NominalPower ==
    (pmArgs.called /\ pmArgs.op = "compute_nominal_power") =>
        /\ pmOut.returned
        /\ Len(pmOut.value.per_bus_W) = Len(pmArgs.buses)
        /\ \A k \in 1 .. Len(pmArgs.buses) :
               pmOut.value.per_bus_W[k] = pmArgs.buses[k][1] * pmArgs.buses[k][2]
        /\ pmOut.value.P_nominal_W = TotalFrom(pmOut.value.per_bus_W, 1)

\* a list of several buses whose first and last powers differ
C24_Witness ==
    /\ pmArgs.called
    /\ pmArgs.op = "compute_nominal_power"
    /\ Len(pmArgs.buses) >= 3
    /\ pmOut.value.per_bus_W[1] # pmOut.value.per_bus_W[Len(pmArgs.buses)]
    /\ pmOut.value.P_nominal_W > pmOut.value.per_bus_W[1]

\* run_simulation() has recorded its initial condition
FlowStarted == flow.pc \in {"loop", "done"}

\* run_simulation() has returned its time series
FlowDone == flow.pc = "done"


\* solarPower - avionicsPower of the run, in watts
FlowExcess == FSub(flow.p_solar, flow.p_eol)

\* the power offered to the battery, max(solarPower - avionicsPower, 0)
FlowSurplus == IF FLt(FZero, FlowExcess) THEN FlowExcess ELSE FZero

\* the configured capacity and initial energy
FlowCapacity == cfg.BATTERY_CAPACITY_WH
FlowInitialEnergy == FMul(cfg.BATTERY_INITIAL_SOC, cfg.BATTERY_CAPACITY_WH)

\* C21: in the coupled simulation the charging power of every step is
\* min(requested power, (capacity - currentEnergy) / (efficiency * timestep)),
\* the first recorded energy is initialSoc * capacity, and every recorded
\* energy lies in [0, capacity].
C21_HeadroomCap ==
    FlowStarted =>
        LET requested == FlowSurplus
            perWatt == FMul(cfg.BATTERY_CHARGING_EFFICIENCY, cfg.DT_H)
        IN /\ ts[1].battery_energy_wh = FlowInitialEnergy
           /\ \A k \in 1 .. Len(ts) :
                  /\ FLeq(FZero, ts[k].battery_energy_wh)
                  /\ FLeq(ts[k].battery_energy_wh, FlowCapacity)
           /\ \A k \in 2 .. Len(ts) :
                  LET headroom == FSub(FlowCapacity, ts[k - 1].battery_energy_wh)
                      cap == FDiv(headroom, perWatt)
                  IN ts[k].battery_charging_w
                         = IF FLt(cap, requested) THEN cap ELSE requested

\* a finished run with a step in which the headroom, not the surplus, set
\* the charging power
C21_Witness ==
    /\ FlowDone
    /\ FLt(FZero, FlowExcess)
    /\ \E k \in 2 .. Len(ts) :
           /\ FLt(FZero, ts[k].battery_charging_w)
           /\ FLt(ts[k].battery_charging_w, FlowExcess)
           /\ FLt(ts[k - 1].battery_energy_wh, FlowCapacity)
           /\ ts[k].battery_energy_wh = FlowCapacity

\* the stored energies of snapshots 0 .. n of simulate() started at energy e
\* with the parameters of the run and the drive power FlowExcess
RECURSIVE FlowSimulatedFrom(_, _)
FlowSimulatedFrom(e, n) ==
    IF n = 0
    THEN <<e>>
    ELSE <<e>> \o FlowSimulatedFrom(
                      NewEnergy(FlowCapacity, e,
                                DeltaE(cfg.BATTERY_CHARGING_EFFICIENCY, FlowExcess, cfg.DT_H)),
                      n - 1)

\* the stored energies simulate() records with the parameters of the run and
\* the drive power FlowExcess, one per snapshot of the run
FlowSimulated == FlowSimulatedFrom(FlowInitialEnergy, Len(ts) - 1)

\* the coupled run and simulate() with the same parameters and drive power
\* FlowExcess record the same stored energy at every snapshot
SameTrajectory ==
    LET simulated == FlowSimulated
    IN  \A k \in 1 .. Len(ts) : ts[k].battery_energy_wh = simulated[k]

NearlyFull == ExactAdd(FlowCapacity, FNeg(Scale2(FlowCapacity, 0 - 50)))

C28_FullStaysFull ==
    FlowStarted =>
        \A j \in 1 .. Len(ts) : \A k \in (j + 1) .. Len(ts) :
            ts[j].battery_energy_wh = FlowCapacity =>
                /\ ts[k].battery_charging_w = FZero
                /\ ts[k].shunt_dissipation_w = FlowSurplus
                /\ ts[k].battery_energy_wh = FlowCapacity

\* a finished run that filled the battery and then shunted the whole surplus
\* for at least two steps
C28_Witness ==
    /\ FlowDone
    /\ FLt(FZero, FlowExcess)
    /\ FLt(ts[1].battery_energy_wh, FlowCapacity)
    /\ Len(ts) >= 4
    /\ ts[Len(ts) - 2].battery_energy_wh = FlowCapacity
    /\ ts[Len(ts)].shunt_dissipation_w = FlowExcess

\* C29: a _route_step call with solarPower - avionicsPower <= 0 and stored
\* energy in [0, capacity] returns charging power 0, shunt power 0, the stored
\* energy unchanged and the excess as it is; across the steps of a coupled
\* run the stored energy never decreases.
C29_NoDischarge ==
    /\ (/\ rsArgs.called
        /\ FLeq(FSub(rsArgs.p_solar_w, rsArgs.p_avionics_w), FZero)
        /\ FLeq(FZero, rsArgs.battery_energy_wh)
        /\ FLeq(rsArgs.battery_energy_wh, rsArgs.capacity_wh)) =>
           /\ rsOut.battery_charging_w = FZero
           /\ rsOut.shunt_w = FZero
           /\ rsOut.new_energy_wh = rsArgs.battery_energy_wh
           /\ rsOut.p_excess_w = FSub(rsArgs.p_solar_w, rsArgs.p_avionics_w)
    /\ \A k \in 2 .. Len(ts) :
           FLeq(ts[k - 1].battery_energy_wh, ts[k].battery_energy_wh)

\* a finished run in deficit on a partly charged battery: the excess is
\* returned negative and the energy is the initial one at every step
C29_Witness ==
    /\ FlowDone
    /\ Len(ts) >= 3
    /\ rsArgs.called
    /\ FLt(rsOut.p_excess_w, FZero)
    /\ FLt(FZero, FlowInitialEnergy)
    /\ \A k \in 1 .. Len(ts) : ts[k].battery_energy_wh = FlowInitialEnergy

\* C22: simulate never writes the instance, and two simulate calls on the
\* same instance, run one after the other or with their steps interleaved in
\* any order, each return the series the same call returns alone on a fresh
\* instance built with the same constructor arguments.
C22_CallLocal ==
    bm.status = "ok" =>
        /\ bm.capacity_wh = ctor.capacity_wh
        /\ bm.eta = ctor.eta
        /\ bm.initial_energy_wh = FMul(ctor.initial_soc, ctor.capacity_wh)
        /\ \A c \in Callers :
               frames[c].pc = "done" =>
                   frames[c].steps
                       = SimulateSeries(ctor.capacity_wh,
                                        FMul(ctor.initial_soc, ctor.capacity_wh),
                                        ctor.eta, frames[c].p_excess_w,
                                        frames[c].dt_h,
                                        FloorInt(FDiv(frames[c].duration_h, frames[c].dt_h)))

\* two calls on one instance, a charge and a discharge, have both returned
\* after each took steps between two steps of the other
C22_Witness ==
    /\ frames[1].pc = "done"
    /\ frames[2].pc = "done"
    /\ frames[1].interleaved
    /\ frames[2].interleaved
    /\ FLt(FZero, frames[1].p_excess_w)
    /\ FLt(frames[2].p_excess_w, FZero)
    /\ frames[1].steps # frames[2].steps

====
